---- MODULE Spec2Model ----
(***************************************************************************)
(* The Atomic Blog: two React component trees of the repository.           *)
(*                                                                         *)
(*   SpecApp       the App component that keeps all state itself and       *)
(*                 hands memoized props to the memo-wrapped Archive        *)
(*                 (useCallback / useMemo / memo), with Header, Main,      *)
(*                 FormAddPost and Archive below it.                       *)
(*   SpecProvider  the PostProvider context provider with its memoized     *)
(*                 context value and the usePosts hook.                    *)
(*                                                                         *)
(* A string is a sequence of one-character strings.  An object whose       *)
(* identity React compares (an array, a function, a props or value         *)
(* object) carries a natural number as its identity; a newly created       *)
(* object gets the least number no live object of its kind carries, so     *)
(* two objects are the same object exactly when their numbers are equal.   *)
(***************************************************************************)
EXTENDS Naturals, Sequences, FiniteSets, TLC

VARIABLES
    posts,            \* useState: the posts array (its elements, in order)
    postsId,          \* identity of the posts array
    searchQuery,      \* useState: the search query
    searchedPosts,    \* derived on each render: the displayed posts
    searchedPostsId,  \* identity of the displayed array
    isFakeDark,       \* App: useState(false)
    handleAddPost,    \* App: identity of the function useCallback returned
    archiveOptions,   \* App: the object useMemo returned
    archiveOptionsId, \* App: its identity
    archiveDeps,      \* App: dependency array of the archiveOptions memo
    archiveProps,     \* Archive (memo): identities of the props last passed
    archiveRendered,  \* the last step made App re-render Archive
    showArchive,      \* Archive: useState(archiveOptions.show)
    title,            \* FormAddPost: useState("")
    body,             \* FormAddPost: useState("")
    value,            \* PostProvider: the object useMemo returned
    valueId,          \* PostProvider: its identity
    valueDeps,        \* PostProvider: dependency array of the value memo
    hookResult,       \* outcome of the usePosts call of the last step
    lastOp,           \* the handler that ran last
    lastPost          \* the post the last step passed to handleAddPost

vars == <<posts, postsId, searchQuery, searchedPosts, searchedPostsId,
          isFakeDark, handleAddPost, archiveOptions, archiveOptionsId,
          archiveDeps, archiveProps, archiveRendered, showArchive, title,
          body, value, valueId, valueDeps, hookResult, lastOp, lastPost>>

appVars == <<isFakeDark, handleAddPost, archiveOptions, archiveOptionsId,
             archiveDeps, archiveProps, archiveRendered, showArchive,
             title, body>>

providerVars == <<postsId, searchedPostsId, value, valueId, valueDeps,
                  hookResult>>

----------------------------------------------------------------------------
(* Bounds and input sets *)

\* The posts list is capped at this length (the code has no cap).
MaxPosts == 3

\* Number of posts generated at construction (the code generates 30).
NumInitialPosts == 2

\* Posts that createRandomPost can return (title: adjective noun).
RandomPosts ==
    { [title |-> <<"A", " ", "b">>, body |-> <<"b", "a">>],
      [title |-> <<"b">>,           body |-> <<"A">>] }

\* What a user types into the title and body fields.
TitleInputs == { <<>>, <<"a">> }
BodyInputs  == { <<>>, <<"B">> }

\* What a user types into the search field.
QueryInputs == { <<>>, <<"a">>, <<"B", " ", "a">>, <<"a", "b">> }

\* No post: the value of lastPost when the step added none.
NoPost == [title |-> <<>>, body |-> <<>>]

FormPosts == { [title |-> t, body |-> b] :
                  t \in TitleInputs \ {<<>>}, b \in BodyInputs \ {<<>>} }

----------------------------------------------------------------------------
(* Pure functions *)

\* String.prototype.toLowerCase on one character.
ToLowerChar(c) ==
    CASE c = "A" -> "a"
      [] c = "B" -> "b"
      [] OTHER   -> c

toLowerCase(s) == [i \in 1..Len(s) |-> ToLowerChar(s[i])]

\* needle occurs in hay at position i.
OccursAt(hay, needle, i) ==
    \A k \in 1..Len(needle) : hay[i + k - 1] = needle[k]

RECURSIVE IncludesFrom(_, _, _)
IncludesFrom(hay, needle, i) ==
    IF i + Len(needle) - 1 > Len(hay) THEN FALSE
    ELSE IF OccursAt(hay, needle, i) THEN TRUE
    ELSE IncludesFrom(hay, needle, i + 1)

\* String.prototype.includes
includes(hay, needle) == IncludesFrom(hay, needle, 1)

\* The template literal `${post.title} ${post.body}`.
PostText(post) == post.title \o <<" ">> \o post.body

\* A filter callback that forgets to lower-case the query.
PostMatchesRawQuery(post, query) ==
    includes(toLowerCase(PostText(post)), query)

\* The callback given to posts.filter.
PostMatches(post, query) ==
    includes(toLowerCase(PostText(post)), toLowerCase(query))

RECURSIVE filter(_, _)
filter(list, query) ==
    IF list = <<>> THEN <<>>
    ELSE (IF PostMatches(Head(list), query) THEN <<Head(list)>> ELSE <<>>)
         \o filter(Tail(list), query)

\* The derived state searchedPosts.
SearchedPosts(list, query) ==
    IF Len(query) > 0 THEN filter(list, query) ELSE list

\* The least identity that no object in `live` carries.
Fresh(live) == CHOOSE n \in 0..Cardinality(live) :
                  n \notin live /\ \A m \in 0..Cardinality(live) :
                                      m \notin live => n <= m

\* React's comparison of two dependency arrays of the same length.
DepsChanged(prev, next) == \E i \in 1..Len(next) : prev[i] # next[i]

\* useMemo / useCallback: the cached identity unless a dependency changed.
UseMemoId(cached, created, prevDeps, nextDeps) ==
    IF DepsChanged(prevDeps, nextDeps) THEN created ELSE cached

----------------------------------------------------------------------------
(* App, Header, Main, FormAddPost, Archive *)

\* The object the archiveOptions memo builds.
ArchiveOptions(list) ==
    [show  |-> FALSE,
     title |-> <<"Post archive in addition to ", Len(list), " main posts">>]

\* The dependency array of the archiveOptions memo.
ArchiveOptionsDeps(list) == <<Len(list)>>

\* The props App passes to Archive, by identity.
ArchivePropsOf(optionsId, addPostFn) ==
    [archiveOptions |-> optionsId,
     onAddPost      |-> addPostFn,
     setIsFakeDark  |-> "setIsFakeDark"]

\* memo(Archive): Archive renders again iff some prop is another object.
PropsDiffer(prev, next) == \E k \in DOMAIN next : prev[k] # next[k]

\* An updater that puts the new post last: [...posts, post].
AddPostUpdaterLast(post, list) == Append(list, post)

\* The updater handleAddPost gives to setPosts, applied to the list.
AddPostUpdater(post, list) == <<post>> \o list

\* archiveOptions built anew on every render (no useMemo).
ArchiveOptionsIdUnmemoized(list) ==
    Fresh({archiveOptionsId, archiveProps.archiveOptions})

\* useMemo(() => ({show, title}), [posts.length]): the identity it returns.
ArchiveOptionsIdMemo(list) ==
    UseMemoId(archiveOptionsId,
              Fresh({archiveOptionsId, archiveProps.archiveOptions}),
              archiveDeps, ArchiveOptionsDeps(list))

\* useCallback(function handleAddPost, []): the identity it returns.
HandleAddPostCallback ==
    UseMemoId(handleAddPost,
              Fresh({handleAddPost, archiveProps.onAddPost}),
              <<>>, <<>>)

\* One render of App with the given state.
AppRender(newPosts, newQuery, newDark) ==
    LET deps       == ArchiveOptionsDeps(newPosts)
        optionsId  == ArchiveOptionsIdMemo(newPosts)
        addPostFn  == HandleAddPostCallback
        props      == ArchivePropsOf(optionsId, addPostFn)
    IN  /\ posts' = newPosts
        /\ searchQuery' = newQuery
        /\ isFakeDark' = newDark
        /\ searchedPosts' = SearchedPosts(newPosts, newQuery)
        /\ handleAddPost' = addPostFn
        /\ archiveOptionsId' = optionsId
        /\ archiveOptions' = IF optionsId = archiveOptionsId
                             THEN archiveOptions
                             ELSE ArchiveOptions(newPosts)
        /\ archiveDeps' = IF optionsId = archiveOptionsId
                          THEN archiveDeps ELSE deps
        /\ archiveRendered' = PropsDiffer(archiveProps, props)
        /\ archiveProps' = props

InitApp ==
    /\ posts \in [1..NumInitialPosts -> RandomPosts]
    /\ postsId = 0
    /\ searchQuery = <<>>
    /\ searchedPosts = SearchedPosts(posts, searchQuery)
    /\ searchedPostsId = 0
    /\ isFakeDark = FALSE
    /\ handleAddPost = 0
    /\ archiveOptions = ArchiveOptions(posts)
    /\ archiveOptionsId = 0
    /\ archiveDeps = ArchiveOptionsDeps(posts)
    /\ archiveProps = ArchivePropsOf(0, 0)
    /\ archiveRendered = TRUE
    /\ showArchive = ArchiveOptions(posts).show
    /\ title = <<>>
    /\ body = <<>>
    \* PostProvider is not part of this tree: its cells never change.
    /\ value = [posts |-> <<>>]
    /\ valueId = 0
    /\ valueDeps = <<0, <<>>>>
    /\ hookResult = [inside |-> FALSE]
    /\ lastOp = "mount"
    /\ lastPost = NoPost

\* Archive: the "Add as new post" button of one archive post.
ArchiveAddPost(post) ==
    /\ showArchive
    /\ Len(posts) < MaxPosts
    /\ AppRender(AddPostUpdater(post, posts), searchQuery, isFakeDark)
    /\ lastOp' = "handleAddPost"
    /\ lastPost' = post
    /\ UNCHANGED <<showArchive, title, body>>
    /\ UNCHANGED providerVars

\* Header: the "Clear posts" button.
AppClearPosts ==
    /\ AppRender(<<>>, searchQuery, isFakeDark)
    /\ lastOp' = "handleClearPosts"
    /\ lastPost' = NoPost
    /\ UNCHANGED <<showArchive, title, body>>
    /\ UNCHANGED providerVars

\* SearchPosts: onChange of the search field. React skips the render
\* when the new state is the old one.
AppSetSearchQuery(query) ==
    /\ query # searchQuery
    /\ AppRender(posts, query, isFakeDark)
    /\ lastOp' = "setSearchQuery"
    /\ lastPost' = NoPost
    /\ UNCHANGED <<showArchive, title, body>>
    /\ UNCHANGED providerVars

\* The fake-dark-mode button.
ToggleFakeDark ==
    /\ AppRender(posts, searchQuery, ~isFakeDark)
    /\ lastOp' = "setIsFakeDark"
    /\ lastPost' = NoPost
    /\ UNCHANGED <<showArchive, title, body>>
    /\ UNCHANGED providerVars

\* Archive: the show / hide button. Only Archive renders.
ToggleArchive ==
    /\ showArchive' = ~showArchive
    /\ archiveRendered' = FALSE
    /\ lastOp' = "setShowArchive"
    /\ lastPost' = NoPost
    /\ UNCHANGED <<posts, searchQuery, searchedPosts, isFakeDark,
                   handleAddPost, archiveOptions, archiveOptionsId,
                   archiveDeps, archiveProps, title, body>>
    /\ UNCHANGED providerVars

\* FormAddPost: onChange of the title field. Only the form renders.
SetTitle(text) ==
    /\ text # title
    /\ title' = text
    /\ archiveRendered' = FALSE
    /\ lastOp' = "setTitle"
    /\ lastPost' = NoPost
    /\ UNCHANGED <<posts, searchQuery, searchedPosts, isFakeDark,
                   handleAddPost, archiveOptions, archiveOptionsId,
                   archiveDeps, archiveProps, showArchive, body>>
    /\ UNCHANGED providerVars

\* FormAddPost: onChange of the body field.
SetBody(text) ==
    /\ text # body
    /\ body' = text
    /\ archiveRendered' = FALSE
    /\ lastOp' = "setBody"
    /\ lastPost' = NoPost
    /\ UNCHANGED <<posts, searchQuery, searchedPosts, isFakeDark,
                   handleAddPost, archiveOptions, archiveOptionsId,
                   archiveDeps, archiveProps, showArchive, title>>
    /\ UNCHANGED providerVars

\* A guard that looks at the body only: !body.
SubmitRejectedBodyOnly(t, b) == b = <<>>

\* The guard of handleSubmit: !body || !title (the empty string is falsy).
SubmitRejected(t, b) == b = <<>> \/ t = <<>>

\* FormAddPost: submitting the form.
HandleSubmit ==
    /\ lastOp' = "handleSubmit"
    /\ IF SubmitRejected(title, body)
       THEN /\ lastPost' = NoPost
            /\ archiveRendered' = FALSE
            /\ UNCHANGED <<posts, searchQuery, searchedPosts, isFakeDark,
                           handleAddPost, archiveOptions, archiveOptionsId,
                           archiveDeps, archiveProps, title, body>>
       ELSE /\ Len(posts) < MaxPosts
            /\ AppRender(AddPostUpdater([title |-> title, body |-> body],
                                        posts),
                         searchQuery, isFakeDark)
            /\ lastPost' = [title |-> title, body |-> body]
            /\ title' = <<>>
            /\ body' = <<>>
    /\ UNCHANGED showArchive
    /\ UNCHANGED providerVars

NextApp ==
    \/ \E post \in RandomPosts : ArchiveAddPost(post)
    \/ AppClearPosts
    \/ \E query \in QueryInputs : AppSetSearchQuery(query)
    \/ ToggleFakeDark
    \/ ToggleArchive
    \/ \E text \in TitleInputs : SetTitle(text)
    \/ \E text \in BodyInputs : SetBody(text)
    \/ HandleSubmit

SpecApp == InitApp /\ [][NextApp]_vars

----------------------------------------------------------------------------
(* PostProvider and usePosts *)

\* The object the value memo builds.
ContextValue(displayed, query) ==
    [posts          |-> displayed,
     onAddPost      |-> "handleAddPost",
     onClearPosts   |-> "handleClearPosts",
     searchQuery    |-> query,
     setSearchQuery |-> "setSearchQuery"]

\* The dependency array of the value memo: [searchedPosts, searchQuery].
ValueDeps(displayedId, query) == <<displayedId, query>>

\* The value of a context read with no provider above: createContext().
Undefined == [type |-> "undefined"]

\* What a throwing call returns.
Nothing == [type |-> "nothing"]

\* What a provider gives its consumers.
Provided(id, object) == [type |-> "object", id |-> id, fields |-> object]

\* The arrays that are still referenced.
LiveArrays == {postsId, searchedPostsId, valueDeps[1]}

\* The context value objects that are still referenced.
LiveValues == {valueId}

\* hookResult when the step called no hook.
NoCall == [inside |-> FALSE, threw |-> FALSE, error |-> "",
           returned |-> Nothing]

\* The identity of searchedPosts: filter returns a new array, the other
\* branch is the posts array itself.
SearchedPostsId(newPostsId, query) ==
    IF Len(query) > 0
    THEN Fresh(LiveArrays \cup {newPostsId})
    ELSE newPostsId

\* One render of PostProvider with the given state.
ProviderRender(newPosts, newPostsId, newQuery) ==
    LET displayed   == SearchedPosts(newPosts, newQuery)
        displayedId == SearchedPostsId(newPostsId, newQuery)
        deps        == ValueDeps(displayedId, newQuery)
        id          == UseMemoId(valueId, Fresh(LiveValues), valueDeps, deps)
    IN  /\ posts' = newPosts
        /\ postsId' = newPostsId
        /\ searchQuery' = newQuery
        /\ searchedPosts' = displayed
        /\ searchedPostsId' = displayedId
        /\ valueId' = id
        /\ value' = IF id = valueId THEN value
                    ELSE ContextValue(displayed, newQuery)
        /\ valueDeps' = IF id = valueId THEN valueDeps ELSE deps

InitProvider ==
    /\ posts \in [1..NumInitialPosts -> RandomPosts]
    /\ postsId = 0
    /\ searchQuery = <<>>
    /\ searchedPosts = SearchedPosts(posts, searchQuery)
    /\ searchedPostsId = 0
    /\ value = ContextValue(searchedPosts, searchQuery)
    /\ valueId = 0
    /\ valueDeps = ValueDeps(0, searchQuery)
    /\ hookResult = NoCall
    \* App, FormAddPost and Archive are not part of this tree: their cells
    \* never change.
    /\ isFakeDark = FALSE
    /\ handleAddPost = 0
    /\ archiveOptions = ArchiveOptions(<<>>)
    /\ archiveOptionsId = 0
    /\ archiveDeps = ArchiveOptionsDeps(<<>>)
    /\ archiveProps = ArchivePropsOf(0, 0)
    /\ archiveRendered = FALSE
    /\ showArchive = FALSE
    /\ title = <<>>
    /\ body = <<>>
    /\ lastOp = "mount"
    /\ lastPost = NoPost

\* value.onAddPost(post)
OnAddPost(post) ==
    /\ Len(posts) < MaxPosts
    /\ ProviderRender(AddPostUpdater(post, posts),
                      Fresh(LiveArrays), searchQuery)
    /\ lastOp' = "handleAddPost"
    /\ lastPost' = post
    /\ hookResult' = NoCall
    /\ UNCHANGED appVars

\* value.onClearPosts()
OnClearPosts ==
    /\ ProviderRender(<<>>, Fresh(LiveArrays), searchQuery)
    /\ lastOp' = "handleClearPosts"
    /\ lastPost' = NoPost
    /\ hookResult' = NoCall
    /\ UNCHANGED appVars

\* value.setSearchQuery(query). React skips the render when the new state
\* is the old one.
SetSearchQuery(query) ==
    /\ query # searchQuery
    /\ ProviderRender(posts, postsId, query)
    /\ lastOp' = "setSearchQuery"
    /\ lastPost' = NoPost
    /\ hookResult' = NoCall
    /\ UNCHANGED appVars

\* The parent of PostProvider renders again, and so does PostProvider,
\* with its state as it was.
ParentRender ==
    /\ ProviderRender(posts, postsId, searchQuery)
    /\ lastOp' = "parentRender"
    /\ lastPost' = NoPost
    /\ hookResult' = NoCall
    /\ UNCHANGED appVars

\* usePosts without the undefined check.
UsePostsUnchecked(context) ==
    [threw |-> FALSE, error |-> "", returned |-> context]

\* The body of usePosts, given what useContext(PostContext) returned.
UsePostsBody(context) ==
    IF context = Undefined
    THEN [threw |-> TRUE,
          error |-> "PostContext was used outside of the PostProvider",
          returned |-> Nothing]
    ELSE [threw |-> FALSE, error |-> "", returned |-> context]

\* useContext(PostContext) in a component inside or outside a PostProvider.
UseContext(inside) ==
    IF inside THEN Provided(valueId, value) ELSE Undefined

\* A component calls usePosts while it renders.
UsePosts(inside) ==
    /\ hookResult' = [inside |-> inside] @@ UsePostsBody(UseContext(inside))
    /\ lastOp' = "usePosts"
    /\ lastPost' = NoPost
    /\ UNCHANGED <<posts, postsId, searchQuery, searchedPosts,
                   searchedPostsId, value, valueId, valueDeps>>
    /\ UNCHANGED appVars

NextProvider ==
    \/ \E post \in RandomPosts \cup FormPosts : OnAddPost(post)
    \/ OnClearPosts
    \/ \E query \in QueryInputs : SetSearchQuery(query)
    \/ ParentRender
    \/ \E inside \in BOOLEAN : UsePosts(inside)

SpecProvider == InitProvider /\ [][NextProvider]_vars

----------------------------------------------------------------------------
(* Properties *)

\* Lower-casing, stated character by character.
Lowered(s) ==
    [i \in 1..Len(s) |->
        IF s[i] = "A" THEN "a" ELSE IF s[i] = "B" THEN "b" ELSE s[i]]

\* The lower-cased query is a substring of the lower-cased
\* "title body" text of the post.
ContainsQuery(post, query) ==
    LET text == Lowered(post.title \o <<" ">> \o post.body)
        q    == Lowered(query)
    IN  \E i \in 0..(Len(text) - Len(q)) : SubSeq(text, i + 1, i + Len(q)) = q

QueryTest(post) == ContainsQuery(post, searchQuery)

\* C1: in every state the displayed list is determined by the posts list
\* and the search query alone: the posts list itself when the query is
\* empty, otherwise the subsequence of the posts, in order, whose
\* lower-cased "title body" text contains the lower-cased query.
DisplayedIsFilterOfPosts ==
    IF searchQuery = <<>>
    THEN searchedPosts = posts
    ELSE searchedPosts = SelectSeq(posts, QueryTest)

\* C1 witness: a non-empty query that keeps some posts and drops others.
FilterKeepsSomeDropsSome ==
    /\ searchQuery # <<>>
    /\ Len(searchedPosts) > 0
    /\ Len(searchedPosts) < Len(posts)

\* C2 as stated: a step that adds post p turns the posts list L into
\* L followed by p.
AddPostAppends ==
    [][lastPost' # NoPost => posts' = Append(posts, lastPost')]_vars

\* C2 amended: a step that adds post p turns the posts list L into
\* p followed by L: p is the first element and the remaining |L| elements
\* are L unchanged.
AddPostPrepends ==
    [][lastPost' # NoPost =>
          /\ Len(posts') = Len(posts) + 1
          /\ Head(posts') = lastPost'
          /\ Tail(posts') = posts]_vars

\* C2 witness: a post was added in front of a non-empty list whose last
\* element is another post.
AddedInFront ==
    /\ lastPost # NoPost
    /\ Len(posts) >= 2
    /\ posts[1] = lastPost
    /\ posts[Len(posts)] # lastPost

\* C3: after a usePosts call, a caller outside a PostProvider got the error
\* "PostContext was used outside of the PostProvider" and no return value;
\* a caller inside got no error and the provider's current value, an
\* object with exactly the fields posts, onAddPost, onClearPosts,
\* searchQuery and setSearchQuery.
UsePostsContract ==
    lastOp = "usePosts" =>
        IF hookResult.inside
        THEN /\ ~hookResult.threw
             /\ hookResult.returned.type = "object"
             /\ hookResult.returned.id = valueId
             /\ hookResult.returned.fields = value
             /\ DOMAIN hookResult.returned.fields =
                    {"posts", "onAddPost", "onClearPosts", "searchQuery",
                     "setSearchQuery"}
             /\ hookResult.returned.fields.posts = searchedPosts
             /\ hookResult.returned.fields.searchQuery = searchQuery
        ELSE /\ hookResult.threw
             /\ hookResult.error =
                    "PostContext was used outside of the PostProvider"
             /\ hookResult.returned = Nothing

\* C3 witness: usePosts was called outside a PostProvider and threw, after
\* the provider's state had changed.
UsePostsThrewOutside ==
    /\ lastOp = "usePosts"
    /\ ~hookResult.inside
    /\ hookResult.threw
    /\ searchQuery # <<>>

\* C4: a step re-renders Archive from App only if the length of the posts
\* list changes; and a step that changes the search query, toggles fake
\* dark mode or clears an already empty posts list keeps the identity of
\* archiveOptions, onAddPost and setIsFakeDark, and does not re-render
\* Archive.
ArchiveRendersOnLengthChangeOnly ==
    [][/\ archiveRendered' => Len(posts') # Len(posts)
       /\ (\/ lastOp' \in {"setSearchQuery", "setIsFakeDark"}
           \/ (lastOp' = "handleClearPosts" /\ posts = <<>>))
          => /\ archiveOptionsId' = archiveOptionsId
             /\ handleAddPost' = handleAddPost
             /\ archiveProps' = archiveProps
             /\ archiveProps'.archiveOptions = archiveOptionsId'
             /\ archiveProps'.onAddPost = handleAddPost'
             /\ ~archiveRendered']_vars

\* C4 witness: clearing an already empty posts list did not re-render
\* Archive.
ClearedEmptyListWithoutArchiveRender ==
    /\ lastOp = "handleClearPosts"
    /\ ~archiveRendered

\* C5: a render of PostProvider caused by its parent, with the posts list
\* and the search query as they were, keeps the identity of the context
\* value, whatever the search query is.
ValueKeepsIdentityOnParentRender ==
    [][(/\ lastOp' = "parentRender"
        /\ posts' = posts
        /\ postsId' = postsId
        /\ searchQuery' = searchQuery)
       => valueId' = valueId]_vars

\* The same with an empty search query.
ValueKeepsIdentityWithEmptyQuery ==
    [][(/\ lastOp' = "parentRender"
        /\ searchQuery = <<>>)
       => valueId' = valueId]_vars

\* new is old with post p inserted at one place.
AddedExactly(old, new, p) ==
    /\ Len(new) = Len(old) + 1
    /\ \E i \in 1..Len(new) :
          /\ new[i] = p
          /\ [j \in 1..Len(old) |-> IF j < i THEN new[j] ELSE new[j + 1]]
                = old

\* C6: a submit with an empty title or body leaves title, body and the
\* posts list as they were; a submit with both non-empty adds exactly one
\* post, made of the title and body at submit time, and empties both
\* fields; a post added by a submit has a non-empty title and body.
SubmitContract ==
    [][lastOp' = "handleSubmit" =>
          /\ IF title = <<>> \/ body = <<>>
             THEN /\ posts' = posts
                  /\ title' = title
                  /\ body' = body
                  /\ lastPost' = NoPost
             ELSE /\ AddedExactly(posts, posts',
                                  [title |-> title, body |-> body])
                  /\ lastPost' = [title |-> title, body |-> body]
                  /\ title' = <<>>
                  /\ body' = <<>>
          /\ posts' # posts =>
                /\ lastPost'.title # <<>>
                /\ lastPost'.body # <<>>]_vars

\* C6 witness: a submit added the post typed into the form and emptied
\* the fields.
SubmitAddedPost ==
    /\ lastOp = "handleSubmit"
    /\ lastPost \in FormPosts
    /\ posts # <<>>
    /\ Head(posts) = lastPost
    /\ title = <<>>
    /\ body = <<>>

====
